---- MODULE Spec2Model ----
(***************************************************************************)
(* A model of the y1d backtesting repository:                              *)
(*   backtest_strategy.py  the strategy, run through the backtest engine   *)
(*   data_handling.py      fetch_stock_data (resampling) and add_lags      *)
(*   backtest_strategy.py  run_backtest: fetch, run, save, plot            *)
(*   run_backtest.py       the command line entry point of run_backtest    *)
(*   analyze_results.py    the result aggregator                           *)
(* Each part has its own variables and its own specification; a            *)
(* specification keeps the variables of the other parts at their idle      *)
(* values.                                                                 *)
(*                                                                         *)
(* Conventions: prices are whole dollars, cash and entry prices are in     *)
(* thousandths of a dollar (so that the 0.1% commission is exact), a       *)
(* missing value (pandas NaN) is a number no column holds.                 *)
(***************************************************************************)
EXTENDS Integers, Sequences, FiniteSets

VARIABLES
  \* ---- strategy and engine (Backtest.run) ----
  data,             \* the Price Series handed to Backtest: seq of [Open, Close]
  investment,       \* config.INVESTMENT_AMOUNT as read by init()
  finalize_trades,  \* whether the engine build closes open trades at the end
  i,                \* the engine's bar index (0-based, as in the code)
  btpc,             \* position in Backtest.run: broker, strategy, finalize, done
  orders,           \* broker.orders: seq of [oid, size, parent]
  trades,           \* broker.trades: seq of [tid, size, entry, bar]
  closed_trades,    \* broker.closed_trades: seq of [tid, size, entry, bar, exit_bar]
  cash,             \* broker._cash
  nextId,           \* next order / trade identity
  signals,          \* what the latest next() issued: seq of [op, size]
  sigBar,           \* the bar the latest next() ran on (-1: never)
  posBefore,        \* position size when the latest next() was entered
  \* ---- fetch_stock_data ----
  raw,              \* the downloaded CSV as read: seq of [Date, Close, Volume]
  granularity,      \* "Daily", "Weekly" or "Monthly"
  fetched,          \* the frame fetch_stock_data returns
  fpc,              \* start, done
  \* ---- add_lags ----
  lagIn,            \* df["Close"] of the frame passed in
  num_lags,         \* K
  lag_gap,          \* G
  lagOut,           \* the frame returned: seq of [row, Close, Lags]
  lpc,              \* start, done
  \* ---- run_backtest, one entry per invocation ----
  visualize,        \* the visualize argument
  save_results,     \* the save_results argument
  cli,              \* the invocation entered through run_backtest.py main()
  config,           \* the process's config module: [TICKER, INVESTMENT_AMOUNT, LOOKBACK_YEARS]
  rpc,              \* position: main, maincheck, mainmakedirs (run_backtest.py),
                    \* start, run, mkdir, makedirs, save, write, plot, done, raised
  fetchIn,          \* what the fetch met: [ticker, responses, status, parsed, columns]
  exc,              \* the exception the invocation ended with ("" for none)
  requests,         \* HTTP requests sent by requests.get
  engineRuns,       \* calls of Backtest.run
  timestamp,        \* the local timestamp (-1: unset)
  plotRaised,       \* bt.plot raised
  warned,           \* the "have been saved to CSV" line was printed
  returned,         \* stats were returned to the caller
  written,          \* the files the invocation created or wrote
  \* ---- the results directory and the wall clock ----
  dirExists,        \* os.path.exists(config.RESULTS_PATH)
  statsFiles,       \* second -> the run whose record stats_<second>.csv holds (0: no file)
  plotFiles,        \* second -> the run whose plot backtest_plot_<second>.html holds
  clock,            \* datetime.now() in whole seconds
  \* ---- analyze_results.main ----
  dirStats,         \* the stats_*.csv files, in glob order: one record (row) each
  dirOther,         \* the other .csv files of the directory (earlier summaries)
  apc,              \* position: start, makedirs, load, analyze, plot, done, raised
  results,          \* what load_results returned: [none, rows]
  summary,          \* the Summary Record of analyze_trades: [made, avg, num_backtests]
  summariesWritten, \* strategy_summary_*.csv files written by this main()
  pngsWritten,      \* performance_metrics_*.png files written by this main()
  aexc              \* the exception main() raised ("" for none)

btVars == <<data, investment, finalize_trades, i, btpc, orders, trades,
            closed_trades, cash, nextId, signals, sigBar, posBefore>>

fetchVars == <<raw, granularity, fetched, fpc>>

lagVars == <<lagIn, num_lags, lag_gap, lagOut, lpc>>

\* the run_backtest processes, their files and the clock
runProcVars == <<visualize, save_results, cli, config, rpc, fetchIn, exc, requests,
                 engineRuns, timestamp, plotRaised, warned, returned, written,
                 statsFiles, plotFiles, clock>>

runVars == <<runProcVars, dirExists>>

aggVars == <<dirStats, dirOther, apc, results, summary,
             summariesWritten, pngsWritten, aexc>>

vars == <<btVars, fetchVars, lagVars, runVars, aggVars>>

\* the missing value: a number outside the range of every column
NaN == 0 - 1

(***************************************************************************)
(* General helpers                                                         *)
(***************************************************************************)
RECURSIVE SumSeq(_)
SumSeq(s) == IF s = <<>> THEN 0 ELSE Head(s) + SumSeq(Tail(s))

Max(a, b) == IF a >= b THEN a ELSE b

(***************************************************************************)
(* config.py                                                               *)
(***************************************************************************)
TICKER == "TSLA"
LOOKBACK_YEARS == 5
INVESTMENT_AMOUNT == 10000
INITIAL_CASH == 100000
\* COMMISSION_RATE = 0.001, in thousandths
COMMISSION_RATE == 1

(***************************************************************************)
(* Part 1: BuyBeforeOpenSellAtOpen run by the backtest engine              *)
(*                                                                         *)
(* run_backtest builds Backtest(data, strategy, cash, commission,          *)
(* exclusive_orders=True) and calls run(). The engine is the backtesting   *)
(* library; what is modelled of it is what this strategy exercises:        *)
(* market orders filled at the next bar's open, trade-closing orders       *)
(* queued in front, exclusive orders, the margin check, and the handling   *)
(* of the last bar. Whether trades still open after the last bar are       *)
(* closed depends on the installed engine build (always before 0.6,        *)
(* finalize_trades=False by default since), so it is a choice of Init.     *)
(***************************************************************************)
MaxBars == 3

Prices == {100, 3000, 20000}
Investments == {INVESTMENT_AMOUNT, 150}

Bars == [Open : Prices, Close : Prices]

\* the end-to-end scenario: a daily series with a constant price
ConstantSeries == [k \in 1..10 |-> [Open |-> 100, Close |-> 100]]

\* data.Close[-1] when the engine is on bar b (0-based)
CloseAt(b) == data[b + 1].Close
OpenAt(b) == data[b + 1].Open

\* math.floor(self.investment_amount / price), price > 0
NumSharesCeil(M, P) == (M + P - 1) \div P
NumShares(M, P) == M \div P

\* Position.size: the sum of the open trades' sizes
PositionSize(trs) == SumSeq([k \in 1..Len(trs) |-> trs[k].size])

\* Position.close(): trade.close() for every open trade, each order
\* inserted at the front of the queue
RECURSIVE CloseAll(_, _, _)
CloseAll(trs, ords, id) ==
  IF trs = <<>> THEN ords
  ELSE CloseAll(Tail(trs),
                <<[oid |-> id, size |-> -Head(trs).size, parent |-> Head(trs).tid]>> \o ords,
                id + 1)

\* Order.is_contingent: the order was placed upon a trade
IsContingent(o) == o.parent # 0

\* Strategy.buy -> Broker.new_order with exclusive_orders: cancel the
\* non-contingent orders, close every open trade, append the new order
NewOrder(ords, trs, n, id) ==
  LET kept == SelectSeq(ords, IsContingent)
      closing == CloseAll(trs, kept, id)
  IN  Append(closing, [oid |-> id + Len(trs), size |-> n, parent |-> 0])

\* the buy condition of next()
CanAfford(n) == n >= 1

\* BuyBeforeOpenSellAtOpen.next on bar i
StrategyNext ==
  /\ btpc = "strategy"
  /\ LET pos == PositionSize(trades)
         afterClose == IF pos # 0 THEN CloseAll(trades, orders, nextId) ELSE orders
         idAfterClose == IF pos # 0 THEN nextId + Len(trades) ELSE nextId
         price == CloseAt(i)
         num_shares == NumShares(investment, price)
     IN  /\ posBefore' = pos
         /\ sigBar' = i
         /\ IF CanAfford(num_shares)
            THEN /\ orders' = NewOrder(afterClose, trades, num_shares, idAfterClose)
                 /\ nextId' = idAfterClose + Len(trades) + 1
                 /\ signals' = (IF pos # 0 THEN <<[op |-> "close", size |-> pos]>> ELSE <<>>)
                                 \o <<[op |-> "buy", size |-> num_shares]>>
            ELSE /\ orders' = afterClose
                 /\ nextId' = idAfterClose
                 /\ signals' = (IF pos # 0 THEN <<[op |-> "close", size |-> pos]>> ELSE <<>>)
  \* the loop of Backtest.run moves to the next bar
  /\ i' = i + 1
  /\ btpc' = IF i + 1 < Len(data) THEN "broker" ELSE "finalize"
  /\ UNCHANGED <<data, investment, finalize_trades, trades, closed_trades, cash>>
  /\ UNCHANGED <<fetchVars, lagVars, runVars, aggVars>>

\* Broker._adjusted_price for a buy: price * (1 + commission), in thousandths
AdjustedPrice(price) == price * (1000 + COMMISSION_RATE)

\* Trade.pl at price p (dollars): size * (p - entry_price)
TradePl(t, p) == t.size * (p * 1000 - t.entry)

\* Broker.equity and Broker.margin_available at the last price (leverage 1)
Equity(csh, trs, last) == csh + SumSeq([k \in 1..Len(trs) |-> TradePl(trs[k], last)])
MarginUsed(trs, last) == SumSeq([k \in 1..Len(trs) |-> trs[k].size * last * 1000])
MarginAvailable(csh, trs, last) == Max(0, Equity(csh, trs, last) - MarginUsed(trs, last))

RemoveOrder(ords, id) == SelectSeq(ords, LAMBDA o : o.oid # id)
RemoveTrade(trs, id) == SelectSeq(trs, LAMBDA t : t.tid # id)
TradeById(trs, id) == CHOOSE t \in {trs[k] : k \in 1..Len(trs)} : t.tid = id
HasTrade(trs, id) == \E k \in 1..Len(trs) : trs[k].tid = id

\* Broker._process_orders on bar b: every order of the queue's snapshot,
\* in order; market orders fill at the bar's open
RECURSIVE ProcessOrders(_, _, _)
ProcessOrders(snapshot, st, b) ==
  IF snapshot = <<>> THEN st
  ELSE
    LET o == Head(snapshot)
        price == OpenAt(b)
        last == CloseAt(b)
        next ==
          IF ~(\E k \in 1..Len(st.orders) : st.orders[k].oid = o.oid)
          THEN st                                   \* cancelled meanwhile
          ELSE IF o.parent # 0
          THEN \* a trade.close() order: close the trade if it is still open
               IF HasTrade(st.trades, o.parent)
               THEN LET t == TradeById(st.trades, o.parent)
                    IN  [orders |-> RemoveOrder(st.orders, o.oid),
                         trades |-> RemoveTrade(st.trades, t.tid),
                         closed |-> Append(st.closed,
                                           [tid |-> t.tid, size |-> t.size, entry |-> t.entry,
                                            bar |-> t.bar, exit_bar |-> b]),
                         cash |-> st.cash + TradePl(t, price),
                         id |-> st.id]
               ELSE [st EXCEPT !.orders = RemoveOrder(st.orders, o.oid)]
          ELSE \* a market buy: all open trades are long, none is reduced
               IF o.size * AdjustedPrice(price) > MarginAvailable(st.cash, st.trades, last)
               THEN [st EXCEPT !.orders = RemoveOrder(st.orders, o.oid)]
               ELSE [orders |-> RemoveOrder(st.orders, o.oid),
                     trades |-> Append(st.trades,
                                       [tid |-> st.id, size |-> o.size,
                                        entry |-> AdjustedPrice(price), bar |-> b]),
                     closed |-> st.closed,
                     cash |-> st.cash,
                     id |-> st.id + 1]
    IN  ProcessOrders(Tail(snapshot), next, b)

\* Broker.next on bar i: process the orders, then the out-of-money check
BrokerNext ==
  /\ btpc = "broker"
  /\ LET st == ProcessOrders(orders,
                             [orders |-> orders, trades |-> trades, closed |-> closed_trades,
                              cash |-> cash, id |-> nextId], i)
         broke == Equity(st.cash, st.trades, CloseAt(i)) <= 0
     IN  /\ orders' = st.orders
         /\ nextId' = st.id
         /\ IF broke
            THEN \* every trade is closed at the last price, the cash is zeroed and
                 \* _OutOfMoneyError breaks the loop of run()
                 /\ trades' = <<>>
                 /\ closed_trades' = st.closed \o
                      [k \in 1..Len(st.trades) |->
                         [tid |-> st.trades[k].tid, size |-> st.trades[k].size,
                          entry |-> st.trades[k].entry, bar |-> st.trades[k].bar,
                          exit_bar |-> i]]
                 /\ cash' = 0
                 /\ btpc' = "done"
            ELSE /\ trades' = st.trades
                 /\ closed_trades' = st.closed
                 /\ cash' = st.cash
                 /\ btpc' = "strategy"
  /\ UNCHANGED <<data, investment, finalize_trades, i, signals, sigBar, posBefore>>
  /\ UNCHANGED <<fetchVars, lagVars, runVars, aggVars>>

\* the end of Backtest.run: close the remaining trades and run the broker
\* once more on the last bar (when the build finalizes trades)
Finalize ==
  /\ btpc = "finalize"
  /\ IF finalize_trades /\ 1 < Len(data)
     THEN LET closing == CloseAll(trades, orders, nextId)
              st == ProcessOrders(closing,
                                  [orders |-> closing, trades |-> trades,
                                   closed |-> closed_trades, cash |-> cash,
                                   id |-> nextId + Len(trades)], Len(data) - 1)
          IN  /\ orders' = st.orders
              /\ trades' = st.trades
              /\ closed_trades' = st.closed
              /\ cash' = st.cash
              /\ nextId' = st.id
     ELSE UNCHANGED <<orders, trades, closed_trades, cash, nextId>>
  /\ btpc' = "done"
  /\ UNCHANGED <<data, investment, finalize_trades, i, signals, sigBar, posBefore>>
  /\ UNCHANGED <<fetchVars, lagVars, runVars, aggVars>>

IdleBT ==
  /\ data = <<>>
  /\ investment = INVESTMENT_AMOUNT
  /\ finalize_trades = FALSE
  /\ i = 0
  /\ btpc = "idle"
  /\ orders = <<>>
  /\ trades = <<>>
  /\ closed_trades = <<>>
  /\ cash = 0
  /\ nextId = 0
  /\ signals = <<>>
  /\ sigBar = -1
  /\ posBefore = 0

\* stats['# Trades']: the closed trades
NumTrades == Len(closed_trades)

IdleFetch ==
  /\ raw = <<>>
  /\ granularity = "Daily"
  /\ fetched = <<>>
  /\ fpc = "idle"

(***************************************************************************)
(* The idle values of the other parts' variables (each part is introduced  *)
(* further down).                                                          *)
(***************************************************************************)
MaxClock == 1
Runs == {1, 2}
Seconds == 0..MaxClock

NotFetched == [ticker |-> "", responses |-> <<>>, status |-> 0, parsed |-> FALSE, columns |-> {}]

\* config.py as imported
Config == [TICKER |-> TICKER, INVESTMENT_AMOUNT |-> INVESTMENT_AMOUNT,
           LOOKBACK_YEARS |-> LOOKBACK_YEARS]

IdleRunProcs ==
  /\ visualize = [p \in Runs |-> FALSE]
  /\ save_results = [p \in Runs |-> FALSE]
  /\ cli = [p \in Runs |-> FALSE]
  /\ config = [p \in Runs |-> Config]
  /\ rpc = [p \in Runs |-> "idle"]
  /\ fetchIn = [p \in Runs |-> NotFetched]
  /\ exc = [p \in Runs |-> ""]
  /\ requests = [p \in Runs |-> 0]
  /\ engineRuns = [p \in Runs |-> 0]
  /\ timestamp = [p \in Runs |-> -1]
  /\ plotRaised = [p \in Runs |-> FALSE]
  /\ warned = [p \in Runs |-> FALSE]
  /\ returned = [p \in Runs |-> FALSE]
  /\ written = [p \in Runs |-> {}]
  /\ statsFiles = [t \in Seconds |-> 0]
  /\ plotFiles = [t \in Seconds |-> 0]
  /\ clock = 0

IdleRun == IdleRunProcs /\ dirExists = FALSE

NoResults == [none |-> TRUE, rows |-> <<>>]
NoSummary == [made |-> FALSE, avg |-> <<>>, num_backtests |-> 0]

IdleAgg ==
  /\ dirStats = <<>>
  /\ dirOther = <<>>
  /\ apc = "idle"
  /\ results = NoResults
  /\ summary = NoSummary
  /\ summariesWritten = 0
  /\ pngsWritten = 0
  /\ aexc = ""

IdleLags ==
  /\ lagIn = <<>>
  /\ num_lags = 0
  /\ lag_gap = 0
  /\ lagOut = <<>>
  /\ lpc = "idle"

InitBT ==
  /\ IdleFetch
  /\ IdleLags
  /\ IdleRun
  /\ IdleAgg
  /\ \/ \E n \in 1..MaxBars : data \in [1..n -> Bars]
     \/ data = ConstantSeries
  /\ investment \in Investments
  /\ finalize_trades \in BOOLEAN
  /\ i = 1
  /\ btpc = IF 1 < Len(data) THEN "broker" ELSE "finalize"
  /\ orders = <<>>
  /\ trades = <<>>
  /\ closed_trades = <<>>
  /\ cash = INITIAL_CASH * 1000
  /\ nextId = 1
  /\ signals = <<>>
  /\ sigBar = -1
  /\ posBefore = 0

NextBT == BrokerNext \/ StrategyNext \/ Finalize

SpecBT == InitBT /\ [][NextBT]_vars

\* C1: on every bar on which next() ran, with close price P and notional M:
\* a close of the whole position was issued first exactly when a position
\* was open, and then a buy of exactly floor(M/P) shares when floor(M/P) >= 1
\* (the size s with s*P <= M < (s+1)*P), and no buy when floor(M/P) < 1.
C1_NextIssuesCloseThenFlooredBuy ==
  sigBar >= 0 =>
    LET P == CloseAt(sigBar)
        closes == SelectSeq(signals, LAMBDA s : s.op = "close")
        buys == SelectSeq(signals, LAMBDA s : s.op = "buy")
    IN  /\ Len(closes) = (IF posBefore # 0 THEN 1 ELSE 0)
        /\ posBefore # 0 => signals[1] = [op |-> "close", size |-> posBefore]
        /\ Len(buys) = (IF investment >= P THEN 1 ELSE 0)
        /\ investment >= P =>
             /\ signals[Len(signals)] = buys[1]
             /\ buys[1].size >= 1
             /\ buys[1].size * P <= investment
             /\ investment < (buys[1].size + 1) * P

\* next() ran with a position open and issued the close and then a buy
C1_Witness ==
  /\ sigBar >= 0
  /\ posBefore > 0
  /\ Len(signals) = 2
  /\ signals[2].op = "buy"

\* next() ran with a price above the notional: no buy
C1_WitnessNoBuy ==
  /\ sigBar >= 0
  /\ investment < CloseAt(sigBar)
  /\ posBefore > 0

InScenario ==
  /\ data = ConstantSeries
  /\ investment = INVESTMENT_AMOUNT
  /\ finalize_trades

\* C2: in the end-to-end scenario (10 rows at a constant price of 100,
\* investment 10,000, open position liquidated at the end) every trade is a
\* 100-share position and the trade count equals 9.
C2_ScenarioTradeCountIsNine ==
  (InScenario /\ btpc = "done") =>
    /\ \A k \in 1..Len(closed_trades) : closed_trades[k].size = 100
    /\ NumTrades = 9

\* what the engine does in the scenario: next() first runs on the second
\* bar, its order fills on the third; the buy placed on the last bar fills
\* in the final broker pass and stays open, so it is not counted
ScenarioTradeCount ==
  (data = ConstantSeries /\ investment = INVESTMENT_AMOUNT /\ btpc = "done") =>
    /\ \A k \in 1..Len(closed_trades) : closed_trades[k].size = 100
    /\ NumTrades = (IF finalize_trades THEN 8 ELSE 7)
    /\ \A k \in 1..Len(closed_trades) : closed_trades[k].bar = k + 1

(***************************************************************************)
(* Part 2: fetch_stock_data, from the parsed CSV on                        *)
(*   df = df.ffill(); df.set_index('Date');                                *)
(*   df = df.resample(freq).last().dropna().reset_index()                  *)
(*                                                                         *)
(* Dates are day numbers of 2023 (1 = Sunday 1 January). The frame has the *)
(* Date column and two value columns; the other OHLCV columns go through   *)
(* the same column-wise operations.                                        *)
(***************************************************************************)
MaxRawRows == 3

\* Sun 29 Jan, Mon 30 Jan, Tue 31 Jan, Wed 1 Feb 2023: a week and a month end
Days == 29..32
CloseValues == {NaN, 1, 2}
VolumeValues == {NaN, 5}
ValueColumns == {"Close", "Volume"}

RawRowSet == [Date : Days, Close : CloseValues, Volume : VolumeValues]

\* DataFrame.ffill, one column: the last valid value at or before row k
RECURSIVE FFillCol(_, _, _)
FFillCol(rows, c, k) ==
  IF rows[k][c] # NaN THEN rows[k][c]
  ELSE IF k = 1 THEN NaN
  ELSE FFillCol(rows, c, k - 1)

FFill(rows) ==
  [k \in 1..Len(rows) |-> [Date |-> FFillCol(rows, "Date", k),
                           Close |-> FFillCol(rows, "Close", k),
                           Volume |-> FFillCol(rows, "Volume", k)]]

\* the freq table of fetch_stock_data
Freq(g) == CASE g = "Daily" -> "D" [] g = "Weekly" -> "W" [] g = "Monthly" -> "M"

MonthEnds == {31, 59, 90, 120, 151, 181, 212, 243, 273, 304, 334, 365}

\* the label resample gives the bucket of day d: the day itself ('D'),
\* the Sunday that ends its week ('W'), the last day of its month ('M')
BucketLabel(d, freq) ==
  CASE freq = "D" -> d
    [] freq = "W" -> d + ((8 - (d % 7)) % 7)
    [] freq = "M" -> CHOOSE e \in MonthEnds : e >= d /\ \A f \in MonthEnds : f >= d => e <= f

\* resample sorts the frame by its index first (a stable sort)
RECURSIVE InsertByDate(_, _)
InsertByDate(sorted, r) ==
  IF sorted = <<>> THEN <<r>>
  ELSE IF Head(sorted).Date <= r.Date THEN <<Head(sorted)>> \o InsertByDate(Tail(sorted), r)
  ELSE <<r>> \o sorted

RECURSIVE SortByDate(_)
SortByDate(rows) ==
  IF rows = <<>> THEN <<>>
  ELSE InsertByDate(SortByDate(SubSeq(rows, 1, Len(rows) - 1)), rows[Len(rows)])

\* GroupBy.last, one column: the last valid value of the group
RECURSIVE FirstValid(_, _)
FirstValid(rows, c) ==
  IF rows = <<>> THEN NaN
  ELSE IF Head(rows)[c] # NaN THEN Head(rows)[c]
  ELSE FirstValid(Tail(rows), c)

RECURSIVE LastValid(_, _)
LastValid(rows, c) ==
  IF rows = <<>> THEN NaN
  ELSE IF rows[Len(rows)][c] # NaN THEN rows[Len(rows)][c]
  ELSE LastValid(SubSeq(rows, 1, Len(rows) - 1), c)

RECURSIVE SortedSeq(_)
\* a set of numbers as an increasing sequence
SortedSeq(S) ==
  IF S = {} THEN <<>>
  ELSE LET m == CHOOSE x \in S : \A y \in S : x <= y
       IN  <<m>> \o SortedSeq(S \ {m})

\* DataFrame.dropna: rows with any missing value go
HasNaN(r) == \E c \in DOMAIN r : r[c] = NaN
DropNa(rows) == SelectSeq(rows, LAMBDA r : ~HasNaN(r))

\* resample(freq).last(): one row per bin from the first to the last date,
\* empty bins included (all NaN)
ResampleLast(rows, freq) ==
  IF rows = <<>> THEN <<>>
  ELSE
    LET sorted == SortByDate(rows)
        bins == {BucketLabel(d, freq) : d \in sorted[1].Date .. sorted[Len(sorted)].Date}
        labels == SortedSeq(bins)
        group(l) == SelectSeq(sorted, LAMBDA r : BucketLabel(r.Date, freq) = l)
    IN  [k \in 1..Len(labels) |->
           [Date |-> labels[k],
            Close |-> LastValid(group(labels[k]), "Close"),
            Volume |-> LastValid(group(labels[k]), "Volume")]]

FetchStockData ==
  /\ fpc = "start"
  /\ fetched' = DropNa(ResampleLast(FFill(raw), Freq(granularity)))
  /\ fpc' = "done"
  /\ UNCHANGED <<raw, granularity>>
  /\ UNCHANGED <<btVars, lagVars, runVars, aggVars>>

\* a time series as the source normally delivers it: rows in date order
IsDateOrdered(rows) == \A k \in 1..(Len(rows) - 1) : rows[k].Date <= rows[k + 1].Date

InitFetch ==
  /\ IdleBT
  /\ IdleLags
  /\ IdleRun
  /\ IdleAgg
  /\ \E n \in 1..MaxRawRows : raw \in [1..n -> RawRowSet]
  /\ granularity \in {"Daily", "Weekly", "Monthly"}
  /\ fetched = <<>>
  /\ fpc = "start"

NextFetch == FetchStockData

SpecFetch == InitFetch /\ [][NextFetch]_vars

\* the buckets that hold at least one raw row, and each one's last raw row
RawBuckets == {BucketLabel(raw[k].Date, Freq(granularity)) : k \in 1..Len(raw)}
LastRowOf(l) ==
  CHOOSE k \in 1..Len(raw) :
    /\ BucketLabel(raw[k].Date, Freq(granularity)) = l
    /\ \A j \in 1..Len(raw) : BucketLabel(raw[j].Date, Freq(granularity)) = l => j <= k
BarsLabelled(l) == {k \in 1..Len(fetched) : fetched[k].Date = l}
DatesIncrease == \A k \in 1..(Len(fetched) - 1) : fetched[k].Date < fetched[k + 1].Date

\* C3 as stated: one bar for every bucket that holds a raw row, equal in its
\* values to the bucket's last raw row, and dates strictly increasing.
C3_OneBarPerRawBucket ==
  fpc = "done" =>
    /\ DatesIncrease
    /\ \A l \in RawBuckets :
         /\ Cardinality(BarsLabelled(l)) = 1
         /\ \A k \in BarsLabelled(l) :
              \A c \in ValueColumns : fetched[k][c] = raw[LastRowOf(l)][c]

\* C3 amended: for a raw series in date order, a bucket that holds a raw row
\* yields one bar exactly when its last row has no missing value after the
\* forward fill, and none otherwise; the bar carries the bucket's label as
\* its date and the forward-filled values of that last row; no other bar is
\* returned and the dates are strictly increasing.
C3_OneBarPerCompleteBucket ==
  (fpc = "done" /\ IsDateOrdered(raw)) =>
    /\ DatesIncrease
    /\ \A k \in 1..Len(fetched) : fetched[k].Date \in RawBuckets
    /\ \A l \in RawBuckets :
         LET r == FFill(raw)[LastRowOf(l)]
         IN  IF r.Close # NaN /\ r.Volume # NaN
             THEN /\ Cardinality(BarsLabelled(l)) = 1
                  /\ \A k \in BarsLabelled(l) :
                       fetched[k] = [Date |-> l, Close |-> r.Close, Volume |-> r.Volume]
             ELSE BarsLabelled(l) = {}

\* a weekly or monthly fetch of three rows, the last with a missing close
\* that the forward fill supplies, returned two bars, the second dated by
\* its bucket's label and not by its row
C3_Witness ==
  /\ fpc = "done"
  /\ IsDateOrdered(raw)
  /\ granularity # "Daily"
  /\ Len(raw) = 3
  /\ raw[3].Close = NaN
  /\ Len(fetched) = 2
  /\ fetched[2].Date # raw[3].Date

(***************************************************************************)
(* Part 3: add_lags(df, num_lags, lag_gap)                                 *)
(*   for i in range(1, num_lags + 1):                                      *)
(*       df[f"Lag_{i}"] = df["Close"].shift(i * lag_gap)                   *)
(*   df.dropna(inplace=True)                                               *)
(* A row of the frame is its original position, its close and its lags.    *)
(***************************************************************************)
MaxLagRows == 4
MaxLags == 2
MaxGap == 2

\* the shift of column Lag_i
LagShiftNoGap(k, gap) == k
LagShift(k, gap) == k * gap

\* Series.shift(k) at row r: the value k rows earlier, missing before the start
ShiftAt(col, k, r) == IF r - k >= 1 THEN col[r - k] ELSE NaN

LagRowHasNaN(r) == r.Close = NaN \/ \E k \in 1..Len(r.Lags) : r.Lags[k] = NaN

AddLags(col, K, G) ==
  LET withLags == [r \in 1..Len(col) |->
                     [row |-> r, Close |-> col[r],
                      Lags |-> [k \in 1..K |-> ShiftAt(col, LagShift(k, G), r)]]]
  IN  SelectSeq(withLags, LAMBDA r : ~LagRowHasNaN(r))

AddLagsCall ==
  /\ lpc = "start"
  /\ lagOut' = AddLags(lagIn, num_lags, lag_gap)
  /\ lpc' = "done"
  /\ UNCHANGED <<lagIn, num_lags, lag_gap>>
  /\ UNCHANGED <<btVars, fetchVars, runVars, aggVars>>

InitLags ==
  /\ IdleBT
  /\ IdleFetch
  /\ IdleRun
  /\ IdleAgg
  /\ \E n \in 1..MaxLagRows : lagIn \in [1..n -> CloseValues]
  /\ num_lags \in 1..MaxLags
  /\ lag_gap \in 1..MaxGap
  /\ lagOut = <<>>
  /\ lpc = "start"

NextLags == AddLagsCall

SpecLags == InitLags /\ [][NextLags]_vars

\* a Price Series has no missing value (fetch_stock_data drops such rows)
NoMissingClose == \A r \in 1..Len(lagIn) : lagIn[r] # NaN
RowsInOrder == \A k \in 1..(Len(lagOut) - 1) : lagOut[k].row < lagOut[k + 1].row
LagsAreEarlierCloses ==
  \A k \in 1..Len(lagOut) :
    /\ lagOut[k].Close = lagIn[lagOut[k].row]
    /\ \A j \in 1..num_lags :
         /\ lagOut[k].row - j * lag_gap >= 1
         /\ lagOut[k].Lags[j] = lagIn[lagOut[k].row - j * lag_gap]

\* C4 as stated: for every Price Series, K >= 1 and G >= 1 the row count is
\* the input's minus K*G, the rows keep their order and Lag_i at row r is
\* the close at row r - i*G.
C4_RowCountIsInputMinusKG ==
  (lpc = "done" /\ NoMissingClose) =>
    /\ Len(lagOut) = Len(lagIn) - num_lags * lag_gap
    /\ RowsInOrder
    /\ LagsAreEarlierCloses

\* C4 amended: add_lags keeps, in their order, exactly the rows r > K*G
\* whose close and whose closes at r - i*G (i in 1..K) are not missing, with
\* Lag_i at r the close at r - i*G; for a Price Series (no missing value)
\* these are the rows after the first K*G, so the row count is the input's
\* minus K*G when the input has at least K*G rows, and 0 otherwise.
C4_RowCountIsInputMinusKGOrZero ==
  lpc = "done" =>
    LET kept == {r \in 1..Len(lagIn) :
                   /\ r > num_lags * lag_gap
                   /\ lagIn[r] # NaN
                   /\ \A j \in 1..num_lags : lagIn[r - j * lag_gap] # NaN}
    IN  /\ {lagOut[k].row : k \in 1..Len(lagOut)} = kept
        /\ Len(lagOut) = Cardinality(kept)
        /\ RowsInOrder
        /\ LagsAreEarlierCloses
        /\ NoMissingClose => Len(lagOut) = Max(0, Len(lagIn) - num_lags * lag_gap)

\* two lags with a gap of one over four complete rows: two rows returned
C4_Witness ==
  /\ lpc = "done"
  /\ NoMissingClose
  /\ Len(lagIn) = 4
  /\ num_lags = 2
  /\ Len(lagOut) = 2
  /\ lagOut[1].Lags[2] # lagOut[2].Lags[2]

(***************************************************************************)
(* Part 4: run_backtest(visualize, save_results), two invocations that may *)
(* interleave (two processes sharing the results directory and the clock). *)
(* An invocation is either a direct call of run_backtest or a run of the   *)
(* command line entry point, run_backtest.py main(), which calls it.       *)
(* A stats record is identified by the run that computed it.               *)
(***************************************************************************)
\* get_url_dict
UrlTickers == {"APPL", "AMZN", "FANG", "GOOG", "TSLA"}
\* the command lines: no option (the defaults of config.py), another
\* ticker, another investment and lookback
CliArgs ==
  {[ticker |-> TICKER, investment |-> INVESTMENT_AMOUNT, years |-> LOOKBACK_YEARS],
   [ticker |-> "MSFT", investment |-> INVESTMENT_AMOUNT, years |-> LOOKBACK_YEARS],
   [ticker |-> TICKER, investment |-> 150, years |-> 1]}
\* the status of the response requests.get returns
Statuses == {200, 300, 404, 503}
\* the redirects the server answers with before that response
RedirectChains == {<<>>, <<302>>, <<302, 301>>}
\* what the server answers to the successive requests for the URL: the
\* redirects, the response, and the 200 a further request would be answered
ServerScripts ==
  {chain \o <<status, 200>> : chain \in RedirectChains, status \in Statuses}
required_columns == {"Open", "High", "Low", "Close", "Volume"}
CsvColumns == required_columns \cup {"Date"}
ColumnSets == {CsvColumns, CsvColumns \ {"Volume"}, CsvColumns \ {"Date"}}

\* Response.raise_for_status: a 4xx or 5xx status raises HTTPError
RaisesForStatus5xx(status) == 500 <= status /\ status < 600
RaisesForStatus(status) == 400 <= status /\ status < 600

\* Response.is_redirect, for a response with a Location header
IsRedirect(status) == status \in {301, 302, 303, 307, 308}

\* requests.get(url): one request per response, a redirect is followed
\* (allow_redirects is on by default), the first other response is returned
\* and nothing is requested after it. The responses received, in order.
RECURSIVE Get(_)
Get(script) ==
  IF script = <<>> THEN <<>>
  ELSE IF IsRedirect(Head(script)) THEN <<Head(script)>> \o Get(Tail(script))
  ELSE <<Head(script)>>

\* the exception get_data_for_backtesting ends with ("" when it returns)
FetchException(ticker, status, columns) ==
  IF ticker \notin UrlTickers THEN "KeyError"              \* url_dict[ticker]
  ELSE IF RaisesForStatus(status) THEN "HTTPError"         \* response.raise_for_status()
  ELSE IF "Date" \notin columns THEN "KeyError"            \* df['Date']
  ELSE IF \E c \in required_columns : c \notin columns THEN "ValueError"
  ELSE ""

\* run_backtest.py main(), lines 53-61: parse_arguments and the overrides of
\* config; visualize and save_results hold "not args.no_visualize" and
\* "not args.no_save"
CliMain(p) ==
  /\ rpc[p] = "main"
  /\ \E args \in CliArgs :
       config' = [config EXCEPT ![p] = [TICKER |-> args.ticker,
                                        INVESTMENT_AMOUNT |-> args.investment,
                                        LOOKBACK_YEARS |-> args.years]]
  /\ rpc' = [rpc EXCEPT ![p] = "maincheck"]
  /\ UNCHANGED <<visualize, save_results, cli, fetchIn, exc, requests, engineRuns,
                 timestamp, plotRaised, warned, returned, written, dirExists, statsFiles,
                 plotFiles, clock>>
  /\ UNCHANGED <<btVars, fetchVars, lagVars, aggVars>>

\* run_backtest.py main(), line 64:
\* if not args.no_save and not os.path.exists(config.RESULTS_PATH)
CliCheckDir(p) ==
  /\ rpc[p] = "maincheck"
  /\ rpc' = [rpc EXCEPT ![p] =
               IF save_results[p] /\ ~dirExists THEN "mainmakedirs" ELSE "start"]
  /\ UNCHANGED <<visualize, save_results, cli, config, fetchIn, exc, requests, engineRuns,
                 timestamp, plotRaised, warned, returned, written, dirExists, statsFiles,
                 plotFiles, clock>>
  /\ UNCHANGED <<btVars, fetchVars, lagVars, aggVars>>

\* run_backtest.py main(), line 65: os.makedirs(config.RESULTS_PATH),
\* FileExistsError when it exists; then line 68 calls run_backtest
CliMakeDirs(p) ==
  /\ rpc[p] = "mainmakedirs"
  /\ IF dirExists
     THEN /\ exc' = [exc EXCEPT ![p] = "FileExistsError"]
          /\ rpc' = [rpc EXCEPT ![p] = "raised"]
          /\ UNCHANGED dirExists
     ELSE /\ dirExists' = TRUE
          /\ rpc' = [rpc EXCEPT ![p] = "start"]
          /\ UNCHANGED exc
  /\ UNCHANGED <<visualize, save_results, cli, config, fetchIn, requests, engineRuns,
                 timestamp, plotRaised, warned, returned, written, statsFiles, plotFiles,
                 clock>>
  /\ UNCHANGED <<btVars, fetchVars, lagVars, aggVars>>

\* run_backtest lines 44-48: get_data_for_backtesting(config.TICKER, ...).
\* An unknown ticker raises before any request; the body is parsed only
\* when raise_for_status has not raised.
GetData(p) ==
  /\ rpc[p] = "start"
  /\ \E script \in (IF config[p].TICKER \in UrlTickers THEN ServerScripts ELSE {<<>>}) :
       LET ticker == config[p].TICKER
           responses == Get(script)
           status == IF responses = <<>> THEN 0 ELSE responses[Len(responses)]
           parsed == ticker \in UrlTickers /\ ~RaisesForStatus(status)
       IN  \E columns \in (IF parsed THEN ColumnSets ELSE {{}}) :
             LET e == FetchException(ticker, status, columns)
             IN  /\ fetchIn' = [fetchIn EXCEPT ![p] =
                                  [ticker |-> ticker, responses |-> responses,
                                   status |-> status, parsed |-> parsed,
                                   columns |-> columns]]
                 /\ requests' = [requests EXCEPT ![p] = Len(responses)]
                 /\ exc' = [exc EXCEPT ![p] = e]
                 /\ rpc' = [rpc EXCEPT ![p] = IF e = "" THEN "run" ELSE "raised"]
  /\ UNCHANGED <<visualize, save_results, cli, config, engineRuns, timestamp, plotRaised, warned,
                 returned, written, dirExists, statsFiles, plotFiles, clock>>
  /\ UNCHANGED <<btVars, fetchVars, lagVars, aggVars>>

\* lines 51-61: Backtest(...).run()
RunEngine(p) ==
  /\ rpc[p] = "run"
  /\ engineRuns' = [engineRuns EXCEPT ![p] = @ + 1]
  /\ rpc' = [rpc EXCEPT ![p] = "mkdir"]
  /\ UNCHANGED <<visualize, save_results, cli, config, fetchIn, exc, requests, timestamp, plotRaised,
                 warned, returned, written, dirExists, statsFiles, plotFiles, clock>>
  /\ UNCHANGED <<btVars, fetchVars, lagVars, aggVars>>

\* line 64: if save_results and not os.path.exists(config.RESULTS_PATH)
CheckDir(p) ==
  /\ rpc[p] = "mkdir"
  /\ rpc' = [rpc EXCEPT ![p] = IF save_results[p] /\ ~dirExists THEN "makedirs" ELSE "save"]
  /\ UNCHANGED <<visualize, save_results, cli, config, fetchIn, exc, requests, engineRuns, timestamp,
                 plotRaised, warned, returned, written, dirExists, statsFiles, plotFiles,
                 clock>>
  /\ UNCHANGED <<btVars, fetchVars, lagVars, aggVars>>

\* line 65: os.makedirs(config.RESULTS_PATH), FileExistsError when it exists
MakeDirs(p) ==
  /\ rpc[p] = "makedirs"
  /\ IF dirExists
     THEN /\ exc' = [exc EXCEPT ![p] = "FileExistsError"]
          /\ rpc' = [rpc EXCEPT ![p] = "raised"]
          /\ UNCHANGED dirExists
     ELSE /\ dirExists' = TRUE
          /\ rpc' = [rpc EXCEPT ![p] = "save"]
          /\ UNCHANGED exc
  /\ UNCHANGED <<visualize, save_results, cli, config, fetchIn, requests, engineRuns, timestamp,
                 plotRaised, warned, returned, written, statsFiles, plotFiles, clock>>
  /\ UNCHANGED <<btVars, fetchVars, lagVars, aggVars>>

\* datetime.now().strftime("%Y%m%d_%H%M%S"): the time to the second
Stamp(p, now) == now

\* lines 68-69: if save_results, the timestamp is taken from the clock; it
\* names the stats file and the plot file of this invocation
TakeTimestamp(p) ==
  /\ rpc[p] = "save"
  /\ IF save_results[p]
     THEN /\ timestamp' = [timestamp EXCEPT ![p] = Stamp(p, clock)]
          /\ rpc' = [rpc EXCEPT ![p] = "write"]
     ELSE /\ rpc' = [rpc EXCEPT ![p] = "plot"]
          /\ UNCHANGED timestamp
  /\ UNCHANGED <<visualize, save_results, cli, config, fetchIn, exc, requests, engineRuns,
                 plotRaised, warned, returned, written, dirExists, statsFiles, plotFiles,
                 clock>>
  /\ UNCHANGED <<btVars, fetchVars, lagVars, aggVars>>

\* lines 70-71: to_csv to stats_<timestamp>.csv (the file is opened for
\* writing: an existing file of that name is replaced)
SaveStats(p) ==
  /\ rpc[p] = "write"
  /\ statsFiles' = [statsFiles EXCEPT ![timestamp[p]] = p]
  /\ written' = [written EXCEPT ![p] = @ \cup {<<"stats", timestamp[p]>>}]
  /\ rpc' = [rpc EXCEPT ![p] = "plot"]
  /\ UNCHANGED <<visualize, save_results, cli, config, fetchIn, exc, requests, engineRuns,
                 timestamp, plotRaised, warned, returned, dirExists, plotFiles, clock>>
  /\ UNCHANGED <<btVars, fetchVars, lagVars, aggVars>>

\* lines 74-85, bt.plot returns
PlotOk(p) ==
  /\ rpc[p] = "plot"
  /\ visualize[p]
  /\ IF save_results[p]
     THEN /\ plotFiles' = [plotFiles EXCEPT ![timestamp[p]] = p]
          /\ written' = [written EXCEPT ![p] = @ \cup {<<"plot", timestamp[p]>>}]
     ELSE UNCHANGED <<plotFiles, written>>
  /\ returned' = [returned EXCEPT ![p] = TRUE]
  /\ rpc' = [rpc EXCEPT ![p] = "done"]
  /\ UNCHANGED <<visualize, save_results, cli, config, fetchIn, exc, requests, engineRuns, timestamp,
                 plotRaised, warned, dirExists, statsFiles, clock>>
  /\ UNCHANGED <<btVars, fetchVars, lagVars, aggVars>>

\* lines 74-85, bt.plot raises: caught, and the lines of the except branch
\* printed, the last one "The backtest results are still valid and have been
\* saved to CSV."
PlotFails(p) ==
  /\ rpc[p] = "plot"
  /\ visualize[p]
  /\ plotRaised' = [plotRaised EXCEPT ![p] = TRUE]
  /\ warned' = [warned EXCEPT ![p] = TRUE]
  /\ returned' = [returned EXCEPT ![p] = TRUE]
  /\ rpc' = [rpc EXCEPT ![p] = "done"]
  /\ UNCHANGED <<visualize, save_results, cli, config, fetchIn, exc, requests, engineRuns, timestamp,
                 written, dirExists, statsFiles, plotFiles, clock>>
  /\ UNCHANGED <<btVars, fetchVars, lagVars, aggVars>>

\* lines 74, 85 with visualize=False
NoPlot(p) ==
  /\ rpc[p] = "plot"
  /\ ~visualize[p]
  /\ returned' = [returned EXCEPT ![p] = TRUE]
  /\ rpc' = [rpc EXCEPT ![p] = "done"]
  /\ UNCHANGED <<visualize, save_results, cli, config, fetchIn, exc, requests, engineRuns, timestamp,
                 plotRaised, warned, written, dirExists, statsFiles, plotFiles, clock>>
  /\ UNCHANGED <<btVars, fetchVars, lagVars, aggVars>>

\* a second passes
Tick ==
  /\ clock < MaxClock
  /\ clock' = clock + 1
  /\ UNCHANGED <<visualize, save_results, cli, config, rpc, fetchIn, exc, requests, engineRuns,
                 timestamp, plotRaised, warned, returned, written, dirExists, statsFiles,
                 plotFiles>>
  /\ UNCHANGED <<btVars, fetchVars, lagVars, aggVars>>

InitRun ==
  /\ IdleBT
  /\ IdleFetch
  /\ IdleLags
  /\ IdleAgg
  /\ visualize \in [Runs -> BOOLEAN]
  /\ save_results \in [Runs -> BOOLEAN]
  /\ cli \in [Runs -> BOOLEAN]
  /\ config = [p \in Runs |-> Config]
  /\ rpc = [p \in Runs |-> IF cli[p] THEN "main" ELSE "start"]
  /\ fetchIn = [p \in Runs |-> NotFetched]
  /\ exc = [p \in Runs |-> ""]
  /\ requests = [p \in Runs |-> 0]
  /\ engineRuns = [p \in Runs |-> 0]
  /\ timestamp = [p \in Runs |-> -1]
  /\ plotRaised = [p \in Runs |-> FALSE]
  /\ warned = [p \in Runs |-> FALSE]
  /\ returned = [p \in Runs |-> FALSE]
  /\ written = [p \in Runs |-> {}]
  /\ dirExists \in BOOLEAN
  /\ statsFiles = [t \in Seconds |-> 0]
  /\ plotFiles = [t \in Seconds |-> 0]
  /\ clock = 0

NextRun ==
  \/ \E p \in Runs : CliMain(p)
  \/ \E p \in Runs : CliCheckDir(p)
  \/ \E p \in Runs : CliMakeDirs(p)
  \/ \E p \in Runs : GetData(p)
  \/ \E p \in Runs : RunEngine(p)
  \/ \E p \in Runs : CheckDir(p)
  \/ \E p \in Runs : MakeDirs(p)
  \/ \E p \in Runs : TakeTimestamp(p)
  \/ \E p \in Runs : SaveStats(p)
  \/ \E p \in Runs : PlotOk(p)
  \/ \E p \in Runs : PlotFails(p)
  \/ \E p \in Runs : NoPlot(p)
  \/ Tick

SpecRun == InitRun /\ [][NextRun]_vars

\* C6: the results directory is append-only under any interleaving of runs
\* that save: the stats file a run has written keeps holding that run's
\* record, whatever runs write afterwards (also within the same second).
C6_StatsFilesAreNeverOverwritten ==
  \A p \in Runs :
    <<"stats", timestamp[p]>> \in written[p] => statsFiles[timestamp[p]] = p

\* C7: when the plotting step raises, the exception is caught, the stats are
\* returned, the step leaves the stats files as they were, and the warning
\* that the results have been saved to CSV is printed only if they were.
C7_PlotFailureIsHarmlessAndTruthful ==
  [][\A p \in Runs :
       (rpc[p] = "plot" /\ rpc'[p] # "plot" /\ plotRaised'[p]) =>
         /\ rpc'[p] = "done"
         /\ exc'[p] = ""
         /\ returned'[p]
         /\ statsFiles' = statsFiles
         /\ warned'[p] => (save_results[p] /\ statsFiles[timestamp[p]] # 0)]_vars

\* the fatal data-acquisition conditions of an invocation that has fetched
UnknownTicker(p) == fetchIn[p].ticker \notin UrlTickers
MissingColumn(p) ==
  fetchIn[p].parsed /\ \E c \in required_columns : c \notin fetchIn[p].columns
\* no retry: every request but the last was answered with a redirect (and
\* followed), and nothing was requested after the response that was not
NoRetry(p) ==
  /\ requests[p] = Len(fetchIn[p].responses)
  /\ \A k \in 1..(requests[p] - 1) : IsRedirect(fetchIn[p].responses[k])
  /\ UnknownTicker(p) => requests[p] = 0
  /\ ~UnknownTicker(p) =>
       /\ requests[p] >= 1
       /\ fetchIn[p].responses[requests[p]] = fetchIn[p].status
       /\ ~IsRedirect(fetchIn[p].status)
Aborted(p) ==
  /\ rpc[p] = "raised"
  /\ exc[p] \in {"KeyError", "HTTPError", "ValueError"}
  /\ UnknownTicker(p) => exc[p] = "KeyError"
  /\ NoRetry(p)
  /\ engineRuns[p] = 0
  /\ written[p] = {}

\* C8 as stated: an unknown ticker, a non-2xx response or a missing required
\* column aborts the run: it raises, without a retry, before the engine runs
\* and before any file is written.
C8_Non2xxAborts ==
  \A p \in Runs :
    (fetchIn[p] # NotFetched /\
      (UnknownTicker(p) \/ fetchIn[p].status \notin 200..299 \/ MissingColumn(p)))
    => Aborted(p)

\* C8 amended: an unknown ticker, a 4xx or 5xx response (the response
\* requests.get returns, after the redirects it followed) or a missing
\* required column aborts the run: it raises (KeyError for the unknown
\* ticker), without a retry (nothing is requested after the response that is
\* not a redirect), before the engine runs and before any file is written.
C8_ErrorStatusAborts ==
  \A p \in Runs :
    (fetchIn[p] # NotFetched /\
      (UnknownTicker(p) \/ fetchIn[p].status \in 400..599 \/ MissingColumn(p)))
    => Aborted(p)

\* a run with a known ticker was redirected to a 200 response lacking
\* Volume and has raised ValueError, the other run was redirected to a 404
\* and has raised HTTPError; each sent two requests
C8_Witness ==
  \E p, q \in Runs :
    /\ rpc[p] = "raised"
    /\ exc[p] = "ValueError"
    /\ fetchIn[p].responses = <<302, 200>>
    /\ requests[p] = 2
    /\ rpc[q] = "raised"
    /\ exc[q] = "HTTPError"
    /\ fetchIn[q].responses = <<302, 404>>
    /\ requests[q] = 2

(***************************************************************************)
(* Part 5: analyze_results.main(): load_results, analyze_trades,           *)
(* plot_performance_metrics.                                               *)
(* A stats file is the one record run_backtest wrote: a mapping from its   *)
(* columns to numbers (NaN for an empty cell). Of the engine's columns     *)
(* only the five the aggregator reads are kept. A mean is the pair         *)
(* [num, den] of the sum and the count it divides by (den = 0: NaN).       *)
(***************************************************************************)
MaxStatsFiles == 3

\* the columns analyze_trades averages, in the order it reads them
HeadlineColumns == <<"Return [%]", "Sharpe Ratio", "Max. Drawdown [%]", "Win Rate [%]", "# Trades">>
Headline == {HeadlineColumns[k] : k \in 1..Len(HeadlineColumns)}
\* the columns that are NaN for a run without trades
RatioColumns == {"Sharpe Ratio", "Win Rate [%]"}

StatsColumnSets ==
  {Headline, Headline \ {"Sharpe Ratio"}, Headline \ {"Return [%]"},
   Headline \ {"Return [%]", "Sharpe Ratio"}}
StatsRecord(cols, v, r) == [c \in cols |-> IF c \in RatioColumns THEN r ELSE v]
StatsRecords == {StatsRecord(cols, v, r) : cols \in StatsColumnSets, v \in {1, 2}, r \in {NaN, 3}}

\* a strategy_summary_*.csv left by an earlier analysis
OldSummary == [c \in {"avg_return", "num_backtests"} |-> 1]

\* glob.glob(os.path.join(results_dir, "stats_*.csv"))
Glob(stats, other) == stats

RECURSIVE UnionOfColumns(_)
UnionOfColumns(dfs) ==
  IF dfs = <<>> THEN {} ELSE (DOMAIN Head(dfs)) \cup UnionOfColumns(Tail(dfs))

RECURSIVE CommonColumns(_)
CommonColumns(dfs) ==
  IF Len(dfs) = 1 THEN DOMAIN Head(dfs)
  ELSE (DOMAIN Head(dfs)) \cap CommonColumns(Tail(dfs))

\* pd.concat(dfs, ignore_index=True): the union of the columns (join='outer'),
\* NaN where a frame lacks a column
ConcatInner(dfs) ==
  [k \in 1..Len(dfs) |-> [c \in CommonColumns(dfs) |-> dfs[k][c]]]
Concat(dfs) ==
  [k \in 1..Len(dfs) |->
     [c \in UnionOfColumns(dfs) |-> IF c \in DOMAIN dfs[k] THEN dfs[k][c] ELSE NaN]]

\* os.path.basename(file): the k-th file of the glob is stats_<k>.csv (the
\* files are numbered in glob order, the number standing for the stamp)
Basename(k) == <<"stats_", k, ".csv">>
\* str.extract(r'stats_(\d{8}_\d{6})'): the stamp between prefix and suffix
ExtractTimestamp(filename) == filename[2]

\* the frame load_results builds from file k: its row, the filename column
\* and the timestamp column taken from the file name
LoadedFrame(files, k) ==
  [c \in (DOMAIN files[k]) \cup {"filename", "timestamp"} |->
     IF c = "filename" THEN Basename(k)
     ELSE IF c = "timestamp" THEN ExtractTimestamp(Basename(k))
     ELSE files[k][c]]

\* load_results
LoadResultsOf(stats, other) ==
  LET csv_files == Glob(stats, other)
  IN  IF csv_files = <<>> THEN NoResults
      ELSE [none |-> FALSE,
            rows |-> Concat([k \in 1..Len(csv_files) |-> LoadedFrame(csv_files, k)])]

\* Series.mean(): NaN values are skipped
MeanOverAll(rows, c) ==
  [num |-> SumSeq([k \in 1..Len(rows) |-> IF rows[k][c] = NaN THEN 0 ELSE rows[k][c]]),
   den |-> Len(rows)]
Mean(rows, c) ==
  LET valid == SelectSeq(rows, LAMBDA r : r[c] # NaN)
  IN  [num |-> SumSeq([k \in 1..Len(valid) |-> valid[k][c]]), den |-> Len(valid)]

\* "results_df is None or results_df.empty"
IsNoneOrEmpty(df) == df.none \/ df.rows = <<>>

\* main(), line 132: if not os.path.exists(config.RESULTS_PATH)
MainCheckDir ==
  /\ apc = "start"
  /\ apc' = IF ~dirExists THEN "makedirs" ELSE "load"
  /\ UNCHANGED <<dirStats, dirOther, results, summary, summariesWritten, pngsWritten, aexc>>
  /\ UNCHANGED <<btVars, fetchVars, lagVars, runVars>>

\* main(), lines 133-136: os.makedirs(config.RESULTS_PATH), FileExistsError
\* when it exists by now; otherwise the two messages and return
MainMakeDirs ==
  /\ apc = "makedirs"
  /\ IF dirExists
     THEN /\ aexc' = "FileExistsError"
          /\ apc' = "raised"
          /\ UNCHANGED dirExists
     ELSE /\ dirExists' = TRUE
          /\ apc' = "done"
          /\ UNCHANGED aexc
  /\ UNCHANGED <<dirStats, dirOther, results, summary, summariesWritten, pngsWritten>>
  /\ UNCHANGED <<btVars, fetchVars, lagVars, runProcVars>>

\* another process creates the results directory (os.makedirs in
\* run_backtest or in run_backtest.py main()) while this main() runs
OtherMakeDirs ==
  /\ ~dirExists
  /\ dirExists' = TRUE
  /\ UNCHANGED <<btVars, fetchVars, lagVars, runProcVars, aggVars>>

\* main(), lines 139-141: load_results and the test of its result
LoadResults ==
  /\ apc = "load"
  /\ results' = LoadResultsOf(dirStats, dirOther)
  /\ apc' = IF ~IsNoneOrEmpty(results') THEN "analyze" ELSE "done"
  /\ UNCHANGED <<dirStats, dirOther, summary, summariesWritten, pngsWritten, aexc>>
  /\ UNCHANGED <<btVars, fetchVars, lagVars, runVars>>

\* main(), line 143: analyze_trades(results); reading a column the frame
\* lacks raises KeyError before anything is written
AnalyzeTrades ==
  /\ apc = "analyze"
  /\ IF IsNoneOrEmpty(results)
     THEN /\ apc' = "plot"
          /\ UNCHANGED <<summary, summariesWritten, aexc>>
     ELSE IF \E c \in Headline : c \notin DOMAIN results.rows[1]
     THEN /\ aexc' = "KeyError"
          /\ apc' = "raised"
          /\ UNCHANGED <<summary, summariesWritten>>
     ELSE /\ summary' = [made |-> TRUE,
                         avg |-> [c \in Headline |-> Mean(results.rows, c)],
                         num_backtests |-> Len(results.rows)]
          /\ summariesWritten' = summariesWritten + 1
          /\ apc' = "plot"
          /\ UNCHANGED aexc
  /\ UNCHANGED <<dirStats, dirOther, results, pngsWritten>>
  /\ UNCHANGED <<btVars, fetchVars, lagVars, runVars>>

\* main(), line 146: plot_performance_metrics(results), which saves the figure
PlotPerformanceMetrics ==
  /\ apc = "plot"
  /\ pngsWritten' = IF IsNoneOrEmpty(results) THEN pngsWritten ELSE pngsWritten + 1
  /\ apc' = "done"
  /\ UNCHANGED <<dirStats, dirOther, results, summary, summariesWritten, aexc>>
  /\ UNCHANGED <<btVars, fetchVars, lagVars, runVars>>

InitAgg ==
  /\ IdleBT
  /\ IdleFetch
  /\ IdleLags
  /\ IdleRunProcs
  /\ dirExists \in BOOLEAN
  /\ \E n \in 0..MaxStatsFiles : dirStats \in [1..n -> StatsRecords]
  /\ ~dirExists => dirStats = <<>>
  /\ dirOther \in (IF dirExists THEN {<<>>, <<OldSummary>>} ELSE {<<>>})
  /\ apc = "start"
  /\ results = NoResults
  /\ summary = NoSummary
  /\ summariesWritten = 0
  /\ pngsWritten = 0
  /\ aexc = ""

NextAgg ==
  \/ MainCheckDir
  \/ MainMakeDirs
  \/ OtherMakeDirs
  \/ LoadResults
  \/ AnalyzeTrades
  \/ PlotPerformanceMetrics

SpecAgg == InitAgg /\ [][NextAgg]_vars

\* the records of the discovered files that hold a value in column c
RECURSIVE SumOver(_, _)
SumOver(S, c) ==
  IF S = {} THEN 0
  ELSE LET k == CHOOSE x \in S : TRUE IN dirStats[k][c] + SumOver(S \ {k}, c)
Holding(c) == {k \in 1..Len(dirStats) : c \in DOMAIN dirStats[k] /\ dirStats[k][c] # NaN}
AllFiles == 1..Len(dirStats)

\* C5 as stated: each average of the Summary Record is the arithmetic mean
\* of its column over the records of all discovered files, and
\* num_backtests is the number of records.
C5_AverageOverAllRecords ==
  summary.made =>
    /\ summary.num_backtests = Len(dirStats)
    /\ \A c \in Headline :
         /\ summary.avg[c].den = Len(dirStats)
         /\ Holding(c) = AllFiles
         /\ summary.avg[c].num = SumOver(AllFiles, c)

\* C5 amended: each average of the Summary Record is the arithmetic mean of
\* its column over those records of the discovered files that hold a value
\* in that column (records where it is missing are left out of the sum and
\* of the count; the average is NaN when no record holds one), and
\* num_backtests is the number of all records.
C5_AverageOverRecordsWithValue ==
  summary.made =>
    /\ summary.num_backtests = Len(dirStats)
    /\ \A c \in Headline :
         /\ summary.avg[c].den = Cardinality(Holding(c))
         /\ summary.avg[c].num = SumOver(Holding(c), c)

\* three runs were averaged, one of them without a Sharpe ratio
C5_Witness ==
  /\ summary.made
  /\ Len(dirStats) = 3
  /\ summary.avg["Sharpe Ratio"].den = 2
  /\ summary.avg["Return [%]"].num = 5

\* C9: with no stats file (directory absent, or present without one) main()
\* returns without raising and writes neither a summary nor a figure.
C9_NoStatsFilesNoOutput ==
  dirStats = <<>> =>
    /\ aexc = ""
    /\ apc # "raised"
    /\ summariesWritten = 0
    /\ pngsWritten = 0
    /\ ~summary.made

\* with no stats file main() writes neither a summary nor a figure, and
\* the only exception it can end with is the FileExistsError of os.makedirs
NoStatsFilesNoFiles ==
  dirStats = <<>> =>
    /\ aexc \in {"", "FileExistsError"}
    /\ summariesWritten = 0
    /\ pngsWritten = 0
    /\ ~summary.made

ColumnSetsDiffer == \E j, k \in 1..Len(dirStats) : DOMAIN dirStats[j] # DOMAIN dirStats[k]
Loaded == apc \in {"analyze", "plot", "done", "raised"} /\ dirStats # <<>>

\* C10 as stated: when the stats files differ in their column sets the load
\* step raises, and neither a combined record set nor a Summary Record is
\* produced.
C10_MismatchFailsLoudly ==
  (Loaded /\ ColumnSetsDiffer) =>
    /\ results.none
    /\ ~summary.made
    /\ apc \in {"done", "raised"} => aexc # ""

\* C10 amended: when the stats files differ in their column sets the load
\* step does not raise: it returns one record per file over the union of
\* the files' columns (plus filename and timestamp), with the missing value
\* where a file lacks a column. analyze_trades then raises KeyError, and no
\* Summary Record is produced, exactly when one of the five averaged
\* columns is in no file at all; otherwise a Summary Record is written.
C10_MismatchIsCoerced ==
  (Loaded /\ ColumnSetsDiffer) =>
    LET cols == UNION {DOMAIN dirStats[k] : k \in 1..Len(dirStats)}
    IN  /\ ~results.none
        /\ Len(results.rows) = Len(dirStats)
        /\ \A k \in 1..Len(dirStats) :
             /\ DOMAIN results.rows[k] = cols \cup {"filename", "timestamp"}
             /\ \A c \in cols :
                  results.rows[k][c] = (IF c \in DOMAIN dirStats[k] THEN dirStats[k][c] ELSE NaN)
        /\ apc # "analyze" =>
             IF Headline \subseteq cols
             THEN /\ apc \in {"plot", "done"}
                  /\ aexc = ""
                  /\ summary.made
                  /\ summariesWritten = 1
             ELSE /\ apc = "raised"
                  /\ aexc = "KeyError"
                  /\ ~summary.made
                  /\ summariesWritten = 0
                  /\ pngsWritten = 0

\* a file with the Sharpe Ratio column and a file without it, neither with
\* the Return [%] column, were loaded into one record set (the missing
\* Sharpe Ratio coerced to NaN) and analyze_trades has raised KeyError
C10_Witness ==
  /\ apc = "raised"
  /\ aexc = "KeyError"
  /\ Len(dirStats) = 2
  /\ ColumnSetsDiffer
  /\ "Return [%]" \notin UNION {DOMAIN dirStats[k] : k \in 1..Len(dirStats)}
  /\ \E k \in 1..2 : "Sharpe Ratio" \notin DOMAIN dirStats[k]
                       /\ results.rows[k]["Sharpe Ratio"] = NaN
  /\ ~summary.made

\* a file with and a file without the Sharpe Ratio column were averaged
\* into a Summary Record
MismatchAveraged ==
  /\ apc = "done"
  /\ Len(dirStats) = 2
  /\ ColumnSetsDiffer
  /\ summary.made
  /\ summary.avg["Sharpe Ratio"].den = 1

====
